---- MODULE Spec2Model ----
(***************************************************************************)
(* Model of bevy_proto_resource_tuples.                                    *)
(*                                                                         *)
(* The crate has two parts:                                                *)
(*   - macros/src/lib.rs: the procedural macro impl_resource_apis, which   *)
(*     emits one InitResources and one InsertResources implementation per  *)
(*     tuple arity;                                                        *)
(*   - src/lib.rs: the two traits and their World, App and Commands        *)
(*     extension surfaces, all of which forward to the emitted impls.      *)
(*                                                                         *)
(* The macro expansion is modelled step by step (pc = "expand"); once it   *)
(* has returned its token stream (pc = "run") the surfaces may be called.  *)
(* A batch call is resolved against the emitted implementations, so the    *)
(* run-time behaviour is the behaviour of the generated code.              *)
(*                                                                         *)
(* The single-resource registry primitives (World::init_resource,          *)
(* World::insert_resource, Commands::add, the command queue's apply) are   *)
(* bevy_ecs code, outside this crate; they are modelled from the contract  *)
(* the crate's doc comments state for them.                                *)
(***************************************************************************)
EXTENDS Integers, Sequences, FiniteSets, TLC

\* macros/src/lib.rs:15  let max_types = 16;
max_types == 16

\* Largest tuple arity the modelled callers use (0 .. MaxTuple; arity 0 is
\* attempted and has no implementation).
MaxTuple == 2

\* Largest number of single-resource operations pending in the command queue.
MaxPending == 2

\* The resource types of the modelled program and the values they take.
ResourceTypes == {"A", "B"}
ResourceValues == {"v0", "v1"}

\* A resource type with no value in the registry.
Absent == "absent"

\* Default::default() of the modelled resource types.
DefaultValue == "v0"

\* The value field of a trace event that carries no value.
NoVal == "none"

VARIABLES
    pc,       \* "expand": the macro is running; "run": the crate is compiled
    i,        \* loop variable of impl_resource_apis
    tokens,   \* the token stream built by impl_resource_apis 
    app,      \* the App; app.world is its World (the registry)
    queue,    \* the command queue behind Commands
    last,     \* the call made by the last step
    prev,     \* the World as it was when that call was made
    ret,      \* what that call returned
    trace     \* the registry primitives that call executed, in order

vars == <<pc, i, tokens, app, queue, last, prev, ret, trace>>

----------------------------------------------------------------------------
(* Small helpers                                                           *)

Range(s) == {s[k] : k \in 1..Len(s)}

RECURSIVE Concat(_)
Concat(ss) == IF ss = <<>> THEN <<>> ELSE Head(ss) \o Concat(Tail(ss))

SeqsUpTo(S, lo, hi) == UNION {[1..n -> S] : n \in lo..hi}

----------------------------------------------------------------------------
(* macros/src/lib.rs: the generator                                        *)

\* |i| format!("P{i}")
fmt_string(n) == <<"P", n>>

\* get_idents(fmt_string, count): (0..count).map(fmt_string).collect()
get_idents(count) == [k \in 1..count |-> fmt_string(k - 1)]

\* let types = get_idents(|i| format!("P{i}"), max_types);
types == get_idents(max_types)

\* for i in 1..=max_types
FirstArity == 1

LoopCondExclusive(n) == n < max_types
LoopCond(n) == n <= max_types

\* let ty = &types[0..i];
ty_slice(n) == SubSeq(types, 1, n)

\* let indices = (0..i).map(Index::from).collect();
indices_of(n) == [k \in 1..n |-> k - 1]

\* impl<#(#ty: Resource + FromWorld,)*> InitResources for (#(#ty,)*) {
\*     type IDS = [ComponentId; #i];
\*     fn init_resources(world) -> Self::IDS { [#(world.init_resource::<#ty>(),)*] }
\* }
InitImplReversed(n) ==
    [trait |-> "InitResources", self_ty |-> ty_slice(n), ids_len |-> n,
     body |-> [k \in 1..n |-> ty_slice(n)[n + 1 - k]]]
InitImpl(n) ==
    [trait |-> "InitResources", self_ty |-> ty_slice(n), ids_len |-> n,
     body |-> ty_slice(n)]

\* impl<#(#ty: Resource,)*> InsertResources for (#(#ty,)*) {
\*     fn insert_resources(self, world) { #(world.insert_resource(self.#indices);)* }
\* }
InsertImplShort(n) ==
    [trait |-> "InsertResources", self_ty |-> ty_slice(n), ids_len |-> 0,
     body |-> indices_of(n - 1)]
InsertImplReversed(n) ==
    [trait |-> "InsertResources", self_ty |-> ty_slice(n), ids_len |-> 0,
     body |-> [k \in 1..n |-> indices_of(n)[n + 1 - k]]]
InsertImpl(n) ==
    [trait |-> "InsertResources", self_ty |-> ty_slice(n), ids_len |-> 0,
     body |-> indices_of(n)]

\* tokens.extend(quote! { <InitResources impl> <InsertResources impl> })
Emit(n) == << InitImpl(n), InsertImpl(n) >>

----------------------------------------------------------------------------
(* bevy_ecs: the registry primitives the generated code calls              *)

EmptyWorld == [resources |-> [t \in ResourceTypes |-> Absent], components |-> <<>>]

\* The ComponentId of a registered type: its position in registration order.
ComponentIdOf(w, t) == (CHOOSE k \in 1..Len(w.components) : w.components[k] = t) - 1

\* Components::init_resource: register the type if it is not registered yet.
RegisterComponent(w, t) ==
    IF t \in Range(w.components) THEN w
    ELSE [w EXCEPT !.components = Append(@, t)]

\* The resource types that have a value in the registry.
PresentIn(w) == {t \in ResourceTypes : w.resources[t] # Absent}

\* What the constructor of a type yields, given the types it finds present.
\* "A" implements Default (and FromWorld through it); "B" implements FromWorld
\* itself and reads the world: it yields "v1" when it finds an "A" there.
Construct(t, present) ==
    IF t = "B" /\ "A" \in present THEN "v1" ELSE DefaultValue

\* FromWorld::from_world(world)
from_world(t, w) == Construct(t, PresentIn(w))

Event(op, t, v) == [op |-> op, ty |-> t, val |-> v]

\* A resource value: its type and its content.
Resource(t, v) == [ty |-> t, val |-> v]

\* The tuple type of a tuple value.
TypesOf(resources) == [k \in 1..Len(resources) |-> resources[k].ty]

\* World::init_resource::<t>(): "If a resource already exists, nothing happens."
\* Returns the ComponentId of t.
World_init_resource(w, t) ==
    LET w1 == RegisterComponent(w, t)
        id == ComponentIdOf(w1, t)
    IN  IF w1.resources[t] = Absent
        THEN [world  |-> [w1 EXCEPT !.resources[t] = from_world(t, w1)],
              id     |-> id,
              events |-> << Event("init_resource", t, NoVal),
                            Event("from_world", t, NoVal) >>]
        ELSE [world  |-> w1,
              id     |-> id,
              events |-> << Event("init_resource", t, NoVal) >>]

\* World::insert_resource(value): "If you insert a resource of a type that
\* already exists, you will overwrite any existing data."
World_insert_resource(w, r) ==
    LET w1 == RegisterComponent(w, r.ty)
    IN  [world  |-> [w1 EXCEPT !.resources[r.ty] = r.val],
         events |-> << Event("insert_resource", r.ty, r.val) >>]

----------------------------------------------------------------------------
(* Trait resolution and the generated method bodies                        *)

\* An emitted implementation applies to the tuples of the arity of its Self type.
AppliesTo(impl, trait, n) == impl.trait = trait /\ Len(impl.self_ty) = n

\* The emitted implementations of a trait for tuples of arity n.
ImplsFor(toks, trait, n) == {k \in 1..Len(toks) : AppliesTo(toks[k], trait, n)}

\* The crate compiles only if no two implementations of a trait overlap.
Overlaps(toks) ==
    {jk \in (1..Len(toks)) \X (1..Len(toks)) :
        /\ jk[1] # jk[2]
        /\ AppliesTo(toks[jk[1]], toks[jk[2]].trait, Len(toks[jk[2]].self_ty))}

Coherent(toks) == Overlaps(toks) = {}

\* A call type-checks when an implementation applies.
Implemented(toks, trait, n) == \E k \in 1..Len(toks) : AppliesTo(toks[k], trait, n)

Resolve(toks, trait, n) == toks[CHOOSE k \in 1..Len(toks) : AppliesTo(toks[k], trait, n)]

\* The concrete type a type parameter of the impl stands for, when Self is the
\* tuple type R: the parameter at position k of (P0, P1, ...) is R[k].
Bind(impl, R, ident) ==
    R[CHOOSE k \in 1..Len(impl.self_ty) : impl.self_ty[k] = ident]

\* [#(world.init_resource::<#ty>(),)*]: the array elements are evaluated left
\* to right.
RECURSIVE InitBody(_, _, _, _)
InitBody(impl, R, k, acc) ==
    IF k > Len(impl.body) THEN acc
    ELSE LET r == World_init_resource(acc.world, Bind(impl, R, impl.body[k]))
         IN  InitBody(impl, R, k + 1,
                      [world  |-> r.world,
                       ids    |-> Append(acc.ids, r.id),
                       events |-> acc.events \o r.events])

\* Variant: every element is constructed and inserted, present or not.
RECURSIVE InitOverwriteBody(_, _, _)
InitOverwriteBody(R, k, acc) ==
    IF k > Len(R) THEN acc
    ELSE LET w1 == RegisterComponent(acc.world, R[k])
         IN  InitOverwriteBody(R, k + 1,
                 [world  |-> [w1 EXCEPT !.resources[R[k]] = from_world(R[k], w1)],
                  ids    |-> Append(acc.ids, ComponentIdOf(w1, R[k])),
                  events |-> acc.events \o << Event("init_resource", R[k], NoVal),
                                              Event("from_world", R[k], NoVal) >>])

InitResources_init_resources_Overwrite(toks, R, w) ==
    InitOverwriteBody(R, 1, [world |-> w, ids |-> <<>>, events |-> <<>>])

\* <R as InitResources>::init_resources(world)
InitResources_init_resources(toks, R, w) ==
    InitBody(Resolve(toks, "InitResources", Len(R)), R, 1,
             [world |-> w, ids |-> <<>>, events |-> <<>>])

\* #(world.insert_resource(self.#indices);)*
RECURSIVE InsertBody(_, _, _, _)
InsertBody(impl, resources, k, acc) ==
    IF k > Len(impl.body) THEN acc
    ELSE LET r == World_insert_resource(acc.world, resources[impl.body[k] + 1])
         IN  InsertBody(impl, resources, k + 1,
                        [world  |-> r.world,
                         ids    |-> <<>>,
                         events |-> acc.events \o r.events])

\* <R as InsertResources>::insert_resources(self, world)
InsertResources_insert_resources(toks, resources, w) ==
    InsertBody(Resolve(toks, "InsertResources", Len(resources)), resources, 1,
               [world |-> w, ids |-> <<>>, events |-> <<>>])

----------------------------------------------------------------------------
(* src/lib.rs: the World surface                                           *)

\* impl WorldInitResources for World: R::init_resources(self)
World_init_resources(toks, R, w) == InitResources_init_resources(toks, R, w)

\* Variant: the tuple is inserted into a new, empty World.
World_insert_resources_Reset(toks, resources, w) ==
    InsertResources_insert_resources(toks, resources, EmptyWorld)

\* impl WorldInsertResources for World: resources.insert_resources(self)
World_insert_resources(toks, resources, w) ==
    InsertResources_insert_resources(toks, resources, w)

----------------------------------------------------------------------------
(* src/lib.rs: the App surface                                             *)

\* Variant: the call is not forwarded to the World.
App_init_resources_NoForward(toks, R, a) ==
    [app |-> a, self |-> a, events |-> <<>>]

\* impl AppInitResources for App. self is the App after the call.
App_init_resources(toks, R, a) ==
    LET r == World_init_resources(toks, R, a.world)
        a1 == [a EXCEPT !.world = r.world]
    IN  [app |-> a1, self |-> a1, events |-> r.events]

\* impl AppInsertResources for App. self is the App after the call.
App_insert_resources(toks, resources, a) ==
    LET r == World_insert_resources(toks, resources, a.world)
        a1 == [a EXCEPT !.world = r.world]
    IN  [app |-> a1, self |-> a1, events |-> r.events]

----------------------------------------------------------------------------
(* src/lib.rs: the Commands surface                                        *)

\* A queued command. seen is bookkeeping of the model, not a field of the
\* command: the element types that had a value when the command was queued.
Command(kind, arg, seen) == [kind |-> kind, arg |-> arg, seen |-> seen]

\* InitResourcesCommand::<R>::new(): the command carries the type R only.
InitResourcesCommand_new(R) == Command("init", R, {})

\* Commands::add: push the command at the back of the queue.
Commands_add(q, cmd) == Append(q, cmd)

\* impl CommandsInitResources for Commands
Commands_init_resources(q, R, present) ==
    Commands_add(q, [InitResourcesCommand_new(R) EXCEPT !.seen = present \cap Range(R)])

\* Variant: the init command is queued in place of the insert command.
Commands_insert_resources_AsInit(q, resources) ==
    Append(q, [kind |-> "init", arg |-> TypesOf(resources), seen |-> {}])

\* impl CommandsInsertResources for Commands: InsertResourcesCommand { resources }
Commands_insert_resources(q, resources) ==
    Commands_add(q, Command("insert", resources, {}))

\* Variant: the command overwrites what it finds.
InitResourcesCommand_write_Overwrite(toks, cmd, w) ==
    InitResources_init_resources_Overwrite(toks, cmd.arg, w)

\* impl Command for InitResourcesCommand<R>: world.init_resources::<R>()
InitResourcesCommand_write(toks, cmd, w) == World_init_resources(toks, cmd.arg, w)

\* impl Command for InsertResourcesCommand<R>: world.insert_resources(self.resources)
InsertResourcesCommand_write(toks, cmd, w) == World_insert_resources(toks, cmd.arg, w)

Command_write(toks, cmd, w) ==
    IF cmd.kind = "init" THEN InitResourcesCommand_write(toks, cmd, w)
    ELSE InsertResourcesCommand_write(toks, cmd, w)

\* CommandQueue::apply: every queued command is written to the world, front
\* of the queue first.
RECURSIVE CommandQueue_apply(_, _, _)
CommandQueue_apply(toks, q, w) ==
    IF q = <<>> THEN [world |-> w, events |-> <<>>]
    ELSE LET r    == Command_write(toks, Head(q), w)
             rest == CommandQueue_apply(toks, Tail(q), r.world)
         IN  [world |-> rest.world, events |-> r.events \o rest.events]

\* The number of single-resource operations the queue holds.
RECURSIVE Pending(_)
Pending(q) == IF q = <<>> THEN 0 ELSE Len(Head(q).arg) + Pending(Tail(q))

----------------------------------------------------------------------------
(* Inputs                                                                  *)

\* Tuple types named by the callers, arity 0 included.
TupleTypes == SeqsUpTo(ResourceTypes, 0, MaxTuple)

\* Tuple values passed by the callers.
TupleValues ==
    SeqsUpTo({Resource(t, v) : t \in ResourceTypes, v \in ResourceValues}, 0, MaxTuple)

Call(surface, op, arg, repeat) ==
    [surface |-> surface, op |-> op, arg |-> arg, repeat |-> repeat]

NoCall == Call("none", "none", <<>>, FALSE)

Returned(kind, ids, a) == [kind |-> kind, ids |-> ids, app |-> a]

NewApp == [world |-> EmptyWorld]

\* TRUE when a World or App call repeats the call of the previous step.
Repeats(surface, op, arg) ==
    last.surface = surface /\ last.op = op /\ last.arg = arg

----------------------------------------------------------------------------
Init ==
    /\ pc = "expand"
    /\ i = FirstArity
    /\ tokens = <<>>
    /\ app = NewApp
    /\ queue = <<>>
    /\ last = NoCall
    /\ prev = EmptyWorld
    /\ ret = Returned("unit", <<>>, NewApp)
    /\ trace = <<>>

\* One iteration of the loop of impl_resource_apis.
ExpandStep ==
    /\ pc = "expand"
    /\ LoopCond(i)
    /\ tokens' = tokens \o Emit(i)
    /\ i' = i + 1
    /\ UNCHANGED <<pc, app, queue, last, prev, ret, trace>>

\* The loop is over: the macro returns its tokens and the crate compiles.
ExpandReturn ==
    /\ pc = "expand"
    /\ ~LoopCond(i)
    /\ Coherent(tokens)
    /\ pc' = "run"
    /\ UNCHANGED <<i, tokens, app, queue, last, prev, ret, trace>>

\* world.init_resources::<R>()
WorldInitResources(R) ==
    /\ pc = "run"
    /\ Implemented(tokens, "InitResources", Len(R))
    /\ LET r == World_init_resources(tokens, R, app.world)
       IN  /\ app' = [app EXCEPT !.world = r.world]
           /\ ret' = Returned("ids", r.ids, NewApp)
           /\ trace' = r.events
    /\ prev' = app.world
    /\ last' = Call("World", "init", R, Repeats("World", "init", R))
    /\ UNCHANGED <<pc, i, tokens, queue>>

\* world.insert_resources(resources)
WorldInsertResources(resources) ==
    /\ pc = "run"
    /\ Implemented(tokens, "InsertResources", Len(resources))
    /\ LET r == World_insert_resources(tokens, resources, app.world)
       IN  /\ app' = [app EXCEPT !.world = r.world]
           /\ ret' = Returned("unit", <<>>, NewApp)
           /\ trace' = r.events
    /\ prev' = app.world
    /\ last' = Call("World", "insert", resources, Repeats("World", "insert", resources))
    /\ UNCHANGED <<pc, i, tokens, queue>>

\* app.init_resources::<R>(): self.world.init_resources::<R>(); self
AppInitResources(R) ==
    /\ pc = "run"
    /\ Implemented(tokens, "InitResources", Len(R))
    /\ LET r == App_init_resources(tokens, R, app)
       IN  /\ app' = r.app
           /\ ret' = Returned("app", <<>>, r.self)
           /\ trace' = r.events
    /\ prev' = app.world
    /\ last' = Call("App", "init", R, Repeats("App", "init", R))
    /\ UNCHANGED <<pc, i, tokens, queue>>

\* app.insert_resources(resources): self.world.insert_resources(resources); self
AppInsertResources(resources) ==
    /\ pc = "run"
    /\ Implemented(tokens, "InsertResources", Len(resources))
    /\ LET r == App_insert_resources(tokens, resources, app)
       IN  /\ app' = r.app
           /\ ret' = Returned("app", <<>>, r.self)
           /\ trace' = r.events
    /\ prev' = app.world
    /\ last' = Call("App", "insert", resources, Repeats("App", "insert", resources))
    /\ UNCHANGED <<pc, i, tokens, queue>>

\* commands.init_resources::<R>()
CommandsInitResources(R) ==
    /\ pc = "run"
    /\ Pending(queue) + Len(R) <= MaxPending
    /\ Implemented(tokens, "InitResources", Len(R))
    /\ queue' = Commands_init_resources(queue, R, PresentIn(app.world))
    /\ ret' = Returned("unit", <<>>, NewApp)
    /\ trace' = <<>>
    /\ prev' = app.world
    /\ last' = Call("Commands", "init", R, FALSE)
    /\ UNCHANGED <<pc, i, tokens, app>>

\* commands.insert_resources(resources)
CommandsInsertResources(resources) ==
    /\ pc = "run"
    /\ Pending(queue) + Len(resources) <= MaxPending
    /\ Implemented(tokens, "InsertResources", Len(resources))
    /\ queue' = Commands_insert_resources(queue, resources)
    /\ ret' = Returned("unit", <<>>, NewApp)
    /\ trace' = <<>>
    /\ prev' = app.world
    /\ last' = Call("Commands", "insert", resources, FALSE)
    /\ UNCHANGED <<pc, i, tokens, app>>

\* The host drains the command queue into the App's World.
ApplyCommands ==
    /\ pc = "run"
    /\ LET r == CommandQueue_apply(tokens, queue, app.world)
       IN  /\ app' = [app EXCEPT !.world = r.world]
           /\ trace' = r.events
    /\ queue' = <<>>
    /\ ret' = Returned("unit", <<>>, NewApp)
    /\ prev' = app.world
    /\ last' = Call("Commands", "apply", queue, FALSE)
    /\ UNCHANGED <<pc, i, tokens>>

\* A system inserts one resource with the registry's own single-resource
\* operation, world.insert_resource(value), while commands are pending.
WorldInsertResource(r) ==
    /\ pc = "run"
    /\ LET res == World_insert_resource(app.world, r)
       IN  /\ app' = [app EXCEPT !.world = res.world]
           /\ trace' = res.events
    /\ ret' = Returned("unit", <<>>, NewApp)
    /\ prev' = app.world
    /\ last' = Call("World", "insert_resource", <<r>>, FALSE)
    /\ UNCHANGED <<pc, i, tokens, queue>>

\* The synchronous surfaces: World and App.
Next ==
    \/ ExpandStep
    \/ ExpandReturn
    \/ \E R \in TupleTypes : WorldInitResources(R)
    \/ \E resources \in TupleValues : WorldInsertResources(resources)
    \/ \E R \in TupleTypes : AppInitResources(R)
    \/ \E resources \in TupleValues : AppInsertResources(resources)

Spec == Init /\ [][Next]_vars

\* The deferred surface: Commands, the drain of its queue, and single
\* resources inserted directly in between.
NextCommands ==
    \/ ExpandStep
    \/ ExpandReturn
    \/ \E R \in TupleTypes : CommandsInitResources(R)
    \/ \E resources \in TupleValues : CommandsInsertResources(resources)
    \/ ApplyCommands
    \/ \E t \in ResourceTypes, v \in ResourceValues : WorldInsertResource(Resource(t, v))

SpecCommands == Init /\ [][NextCommands]_vars

----------------------------------------------------------------------------
(* Properties                                                              *)

Distinct(R) == \A j, k \in 1..Len(R) : j # k => R[j] # R[k]

\* The element types that precede the first occurrence of t in R.
Before(R, t) == {R[j] : j \in 1..((CHOOSE k \in 1..Len(R) : R[k] = t) - 1)}

IsCall(e) == e.op \in {"init_resource", "insert_resource"}

\* The registry calls of a trace, constructor runs left out.
Calls(tr) == SelectSeq(tr, IsCall)

\* One registry call per element, in tuple order.
ExpectedCalls(op, arg) ==
    IF op = "init"
    THEN [k \in 1..Len(arg) |-> Event("init_resource", arg[k], NoVal)]
    ELSE [k \in 1..Len(arg) |-> Event("insert_resource", arg[k].ty, arg[k].val)]

\* The single-resource operation called once per element, first element first.
RECURSIVE OneByOne(_, _, _)
OneByOne(op, arg, w) ==
    IF arg = <<>> THEN w
    ELSE OneByOne(op, Tail(arg),
                  IF op = "init" THEN World_init_resource(w, Head(arg)).world
                  ELSE World_insert_resource(w, Head(arg)).world)

\* The queued commands replayed one by one, front of the queue first.
RECURSIVE Replay(_, _)
Replay(q, w) ==
    IF q = <<>> THEN w
    ELSE Replay(Tail(q), OneByOne(Head(q).kind, Head(q).arg, w))

IsBatch(call) == call.surface \in {"World", "App"} /\ call.op \in {"init", "insert"}

\* The value of the last element of type t in a tuple value.
LastVal(resources, t) ==
    LET ks == {k \in 1..Len(resources) : resources[k].ty = t}
    IN  resources[CHOOSE k \in ks : \A j \in ks : j <= k].val

\* C1: batch-init on a tuple of distinct types gives a constructed value to
\* exactly the element types that had none, leaves every other value as it
\* was, and returns one identifier per element, the i-th being the identifier
\* of the i-th element type.
C1_InitInsertsAbsentOnly ==
    (last.surface = "World" /\ last.op = "init" /\ Distinct(last.arg)) =>
        LET R == last.arg
        IN  /\ \A t \in ResourceTypes :
                   app.world.resources[t] =
                       IF t \in Range(R) /\ prev.resources[t] = Absent
                       THEN Construct(t, PresentIn(prev) \cup Before(R, t))
                       ELSE prev.resources[t]
            /\ Len(ret.ids) = Len(R)
            /\ \A k \in 1..Len(R) : ret.ids[k] = ComponentIdOf(app.world, R[k])

\* A batch-init of (A, B) that found A present with a value of its own and
\* constructed B.
C1_Witness ==
    /\ last = Call("World", "init", <<"A", "B">>, FALSE)
    /\ prev.resources["A"] = "v1"
    /\ prev.resources["B"] = Absent
    /\ app.world.resources["B"] # Absent

\* C2: after batch-insert the registry holds the given value for every
\* element type of the tuple (for a type given more than once, see C10),
\* whatever it held before.
C2_InsertOverwrites ==
    (last.surface = "World" /\ last.op = "insert") =>
        \A k \in 1..Len(last.arg) :
            (\A j \in (k + 1)..Len(last.arg) : last.arg[j].ty # last.arg[k].ty)
                => app.world.resources[last.arg[k].ty] = last.arg[k].val

\* A batch-insert of two types that replaced the values both had.
C2_Witness ==
    /\ last.surface = "World" /\ last.op = "insert"
    /\ Len(last.arg) = 2 /\ Distinct(TypesOf(last.arg))
    /\ \A k \in 1..2 :
           /\ prev.resources[last.arg[k].ty] # Absent
           /\ prev.resources[last.arg[k].ty] # last.arg[k].val

\* C3: a batch-init that repeats the previous call leaves the registry (and
\* the App) as the previous call left it and returns the same identifiers.
C3_InitIdempotent ==
    [][ (last'.op = "init" /\ last'.repeat) =>
            (app' = app /\ ret'.ids = ret.ids) ]_vars

\* The second of two batch-inits of (B, A) in a row.
C3_Witness ==
    /\ last = Call("World", "init", <<"B", "A">>, TRUE)
    /\ Len(ret.ids) = 2

\* C5: a World or App batch call makes exactly one registry call per element,
\* in tuple order, every constructor running right after the call of its own
\* element; and leaves the registry as the single-resource operation, called
\* once per element in that order, leaves it.
C5_OneCallPerElementInOrder ==
    IsBatch(last) =>
        /\ Calls(trace) = ExpectedCalls(last.op, last.arg)
        /\ Len(Calls(trace)) = Len(last.arg)
        /\ \A k \in 1..Len(trace) :
               trace[k].op = "from_world" =>
                   k > 1 /\ trace[k - 1] = Event("init_resource", trace[k].ty, NoVal)
        /\ app.world = OneByOne(last.op, last.arg, prev)

\* A batch-init of (A, B) on an empty registry: A is constructed, then B.
C5_Witness ==
    /\ last.op = "init" /\ last.arg = <<"A", "B">>
    /\ prev = EmptyWorld
    /\ Len(trace) = 4
    /\ app.world.components = <<"A", "B">>

\* C6: once the macro has returned, there is exactly one InitResources and
\* one InsertResources implementation for every arity 1..16, over the type
\* parameters P0..P(n-1) and the tuple indices 0..n-1, and none for any other
\* arity; so no batch call of arity 0 is ever made.
C6_OneImplPerArity ==
    /\ pc = "run" =>
        /\ \A n \in 1..16 : \A trait \in {"InitResources", "InsertResources"} :
               /\ Cardinality(ImplsFor(tokens, trait, n)) = 1
               /\ LET impl == Resolve(tokens, trait, n)
                  IN  /\ impl.self_ty = [k \in 1..n |-> <<"P", k - 1>>]
                      /\ impl.body = IF trait = "InitResources"
                                     THEN [k \in 1..n |-> <<"P", k - 1>>]
                                     ELSE [k \in 1..n |-> k - 1]
        /\ \A k \in 1..Len(tokens) : Len(tokens[k].self_ty) \in 1..16
        /\ Len(tokens) = 32
    /\ last.op \in {"init", "insert"} => Len(last.arg) \in 1..16

\* The macro has returned all its implementations.
C6_Witness == pc = "run" /\ Len(tokens) = 32 /\ i = 17

\* C7: an App call leaves the App's World as the World-level call with the
\* same tuple leaves it, within the call, and returns the App it was made on.
C7_AppForwards ==
    last.surface = "App" =>
        /\ ret.kind = "app"
        /\ ret.app = app
        /\ app.world = IF last.op = "init"
                       THEN World_init_resources(tokens, last.arg, prev).world
                       ELSE World_insert_resources(tokens, last.arg, prev).world

\* An App batch-init that changed the registry and returned the App.
C7_Witness ==
    /\ last.surface = "App" /\ last.op = "init"
    /\ app.world # prev
    /\ ret.app = app

\* C10: when a tuple names a type more than once, batch-insert leaves the
\* value of the last element of that type, and batch-init constructs the type
\* at most once and returns the same identifier wherever the type stands.
C10_RepeatedType ==
    /\ (IsBatch(last) /\ last.op = "insert") =>
           \A t \in Range(TypesOf(last.arg)) :
               app.world.resources[t] = LastVal(last.arg, t)
    /\ (IsBatch(last) /\ last.op = "init") =>
           /\ \A t \in Range(last.arg) :
                  Cardinality({k \in 1..Len(trace) :
                                  trace[k] = Event("from_world", t, NoVal)}) <= 1
           /\ last.surface = "World" =>
                  \A j, k \in 1..Len(last.arg) :
                      last.arg[j] = last.arg[k] => ret.ids[j] = ret.ids[k]

\* A batch-insert of two different values of the same type.
C10_Witness ==
    /\ last.surface = "World" /\ last.op = "insert"
    /\ Len(last.arg) = 2
    /\ last.arg[1].ty = last.arg[2].ty
    /\ last.arg[1].val # last.arg[2].val
    /\ prev.resources[last.arg[1].ty] = Absent

\* The queued insert commands that carry a value of type t.
InsertsOf(q, t) ==
    {k \in 1..Len(q) : q[k].kind = "insert" /\ t \in Range(TypesOf(q[k].arg))}

\* The queued init commands that name type t.
InitsOf(q, t) == {k \in 1..Len(q) : q[k].kind = "init" /\ t \in Range(q[k].arg)}

\* C4: queueing a batch-init or batch-insert adds that command at the back of
\* the queue and leaves the registry alone; draining the queue empties it,
\* makes the registry calls of the queued commands in the order they were
\* queued, each once, and leaves the registry as those commands, replayed in
\* that order, leave it.
C4_DeferredFifo ==
    [][ /\ (last'.surface = "Commands" /\ last'.op \in {"init", "insert"}) =>
            /\ app' = app
            /\ Len(queue') = Len(queue) + 1
            /\ SubSeq(queue', 1, Len(queue)) = queue
            /\ queue'[Len(queue')].kind = last'.op
            /\ queue'[Len(queue')].arg = last'.arg
        /\ last'.op = "apply" =>
            /\ queue' = <<>>
            /\ Calls(trace') =
                   Concat([k \in 1..Len(queue) |->
                               ExpectedCalls(queue[k].kind, queue[k].arg)])
            /\ app'.world = Replay(queue, app.world)
      ]_vars

\* A drain of two queued batch-inserts of the same type with different
\* values: the registry ends with the value queued last.
C4_Witness ==
    /\ last.op = "apply"
    /\ Len(last.arg) = 2
    /\ last.arg[1].kind = "insert" /\ last.arg[2].kind = "insert"
    /\ last.arg[1].arg[1].ty = last.arg[2].arg[1].ty
    /\ last.arg[1].arg[1].val # last.arg[2].arg[1].val
    /\ app.world.resources[last.arg[2].arg[1].ty] = last.arg[2].arg[1].val
    /\ Len(trace) = 2

\* C8: at the drain, a queued batch-init leaves the value of an element type
\* that was absent when the command was queued and has been inserted since;
\* a queued batch-insert leaves the value it was queued with, whatever the
\* registry held by then.
C8_PresenceDecidedAtApply ==
    last.op = "apply" =>
        \A t \in ResourceTypes :
            /\ ( /\ \E k \in InitsOf(last.arg, t) : t \notin last.arg[k].seen
                 /\ prev.resources[t] # Absent
                 /\ InsertsOf(last.arg, t) = {} )
               => app.world.resources[t] = prev.resources[t]
            /\ InsertsOf(last.arg, t) # {} =>
                   LET k == CHOOSE k \in InsertsOf(last.arg, t) :
                                \A j \in InsertsOf(last.arg, t) : j <= k
                   IN  app.world.resources[t] = LastVal(last.arg[k].arg, t)

\* A drain of a batch-init naming A, queued while A was absent; A was given
\* the value "v1" before the drain and keeps it.
C8_Witness ==
    /\ last.op = "apply"
    /\ \E k \in InitsOf(last.arg, "A") : "A" \notin last.arg[k].seen
    /\ InsertsOf(last.arg, "A") = {}
    /\ prev.resources["A"] = "v1"
    /\ app.world.resources["A"] = "v1"

\* The resource types the last call operates on.
Touched ==
    CASE last.op = "apply" ->
            UNION {Range(IF last.arg[k].kind = "init" THEN last.arg[k].arg
                         ELSE TypesOf(last.arg[k].arg)) : k \in 1..Len(last.arg)}
      [] last.op = "insert_resource" -> {last.arg[1].ty}
      [] IsBatch(last) /\ last.op = "init" -> Range(last.arg)
      [] IsBatch(last) /\ last.op = "insert" -> Range(TypesOf(last.arg))
      [] OTHER -> {}

\* C9: no call removes a resource, and no call changes the value of a type
\* that is not an element type of the tuple (or queued tuples) it operates on.
C9_Frame ==
    \A t \in ResourceTypes :
        /\ prev.resources[t] # Absent => app.world.resources[t] # Absent
        /\ t \notin Touched => app.world.resources[t] = prev.resources[t]

\* A drain that operates on A only and changes it, while B keeps its value.
C9_Witness ==
    /\ last.op = "apply"
    /\ Touched = {"A"}
    /\ prev.resources["B"] = "v1"
    /\ app.world.resources["B"] = "v1"
    /\ app.world.resources["A"] # prev.resources["A"]

====
